---- MODULE Spec2Model ----
(***************************************************************************)
(* Flash algorithm for the CH32V208 (src/ch32v208/src/main.rs): the key    *)
(* unlock at construction, erase_sector, program_page, the two bounded     *)
(* status pollers and the re-lock on drop, run against a flash controller  *)
(* whose status register is driven by the hardware.                        *)
(*                                                                         *)
(* A u32 is kept as its two 16-bit halves [hi, lo] (value hi * 2^16 + lo), *)
(* so that 32-bit wrap-around and the key constants stay inside the range  *)
(* of the model checker's integers.                                        *)
(***************************************************************************)
EXTENDS Integers, Sequences, FiniteSets, TLC

VARIABLES
    pc,       \* position of the program: lifecycle state or statement inside an operation
    wpc,      \* position inside the running poller: "loop" or "eop" (the modify of line 90)
    i,        \* iterations of the running poller's for loop already consumed
    ctlr,     \* FLASH.ctlr(): control register bits
    statr,    \* FLASH.statr(): status register bits, as the hardware shows them now
    addrReg,  \* FLASH.addr(): address register
    keys,     \* writes made to keyr / modekeyr by the running or last construction
    call,     \* the running (or last) operation and its arguments
    k,        \* program_page: data words already written in this call
    result,   \* return value of the last operation, "pending" while one runs
    acc,      \* controller writes and completed waits of this call, in order
    reads,    \* status reads (FLASH.statr().read()) made by this call
    obs,      \* what the status reads of this call have shown
    status,   \* the poller's local `status`: the value of its last status read
    drops     \* how many times teardown ran since the last construction

vars == <<pc, wpc, i, ctlr, statr, addrReg, keys, call, k, result, acc, reads, obs, status, drops>>

----------------------------------------------------------------------------
(* Bounds of the model                                                     *)

\* longest data slice handed to program_page, in bytes
MaxLen == 8
\* busy status reads a poller may take one by one before the controller
\* either answers or stays busy for the rest of the budget
MaxBusyReads == 1
\* applications of teardown that are told apart
MaxDrops == 2

----------------------------------------------------------------------------
(* 32-bit values                                                           *)

Half == 65536

U32(h, l) == [hi |-> h, lo |-> l]

\* u32 addition, wrapping modulo 2^32
Add32(x, y) ==
    LET s == x.lo + y.lo
    IN  U32((x.hi + y.hi + (s \div Half)) % Half, s % Half)

\* x & m for a mask m = 2^j - 1 with j <= 16: only the low half takes part
AndMask(x, m) == x.lo % (m + 1)

\* the u32 whose value is the small natural n (n < 2^16)
Small32(n) == U32(0, n)

FLASH_KEY1_IsKey2 == U32(52719, 35243)
\* const FLASH_KEY1: u32 = 0x45670123
FLASH_KEY1 == U32(17767, 291)
\* const FLASH_KEY2: u32 = 0xCDEF89AB
FLASH_KEY2 == U32(52719, 35243)
\* const ERASE_TIMEOUT: u32 = 0xF00000
ERASE_TIMEOUT == 15728640
\* the physical base added to every logical address: 0x0800_0000
FLASH_BASE == U32(2048, 0)
\* sectors: size 0x8000
SectorSize == 32768
\* page_size: 0x100
PageSize == 256
\* addr & 0x7FFF
SectorMask == 32767
\* addr & 0xFF
PageMask == 255
\* chunks_exact(4), step_by(4)
WordBytes == 4

----------------------------------------------------------------------------
(* Inputs                                                                  *)

\* logical addresses the host passes to erase_sector: 0x0, 0x100, 0x8000
\* and 0xFFFF_FF01 (base + a wraps around)
EraseAddrInputs == { U32(0, 0), U32(0, 256), U32(0, 32768), U32(65535, 65281) }

\* logical addresses the host passes to program_page: 0x100, 0x104 and
\* 0xFFFF_FF00 (base + a wraps around)
ProgAddrInputs == { U32(0, 256), U32(0, 260), U32(65535, 65280) }

\* two byte patterns: 1, 2, 3, ... and one with the high bits set
PatByte(p, n) == IF p = 1 THEN n % 256 ELSE (255 - 29 * (n - 1)) % 256

\* the lengths of the data slices: up to MaxLen bytes, a whole number of
\* words or three bytes beyond one
DataLens == { n \in 0..MaxLen : n % WordBytes \in {0, 3} }

\* the data slices: the prefixes of the first pattern, and the second
\* pattern at the longest length
DataInputs ==
    { [n \in 1..len |-> PatByte(1, n)] : len \in DataLens }
        \cup { [n \in 1..MaxLen |-> PatByte(2, n)] }

----------------------------------------------------------------------------
(* Registers                                                               *)

CtlrBits == [lock : BOOLEAN, flock : BOOLEAN, ber32 : BOOLEAN, strt : BOOLEAN,
             page_pg : BOOLEAN, pgstart : BOOLEAN]

StatrBits == [bsy : BOOLEAN, wr_bsy : BOOLEAN, eop : BOOLEAN, wrprterr : BOOLEAN]

\* the controller after reset: locked, no mode armed
ResetCtlr == [lock |-> TRUE, flock |-> TRUE, ber32 |-> FALSE, strt |-> FALSE,
              page_pg |-> FALSE, pgstart |-> FALSE]

IdleStatr == [bsy |-> FALSE, wr_bsy |-> FALSE, eop |-> FALSE, wrprterr |-> FALSE]

----------------------------------------------------------------------------
(* The decisions of the code                                               *)

\* wait_until_not_write_busy: if status.wr_bsy() { continue; }
WrBusy(s) == s.wr_bsy

OpBusy_EopInverted(s) == s.bsy /\ s.eop
\* wait_until_not_busy: if status.bsy() && !status.eop() { continue; }
OpBusy(s) == s.bsy /\ ~s.eop

ProtErr_Ignored(s) == FALSE
\* both pollers: if status.wrprterr() { return Err(ProgrammingError) }
ProtErr(s) == s.wrprterr

PollBudget_OneShort == ERASE_TIMEOUT - 1
\* both pollers: for _ in 0..ERASE_TIMEOUT
PollBudget == ERASE_TIMEOUT

OpTimeoutError_Busy == "BusyTimeout"
\* wait_until_not_busy: Err(Error::EraseTimeout.into())
OpTimeoutError == "EraseTimeout"

ClearEop_All(s) == IdleStatr
\* FLASH.statr().modify(|w| w.set_eop(false))
ClearEop(s) == [s EXCEPT !.eop = FALSE]

\* let addr = addr + 0x0800_0000
Translate(a) == Add32(a, FLASH_BASE)

SectorAligned_PageMask(addr) == AndMask(addr, PageMask) = 0
\* erase_sector: addr & 0x7FFF != 0 is rejected
SectorAligned(addr) == AndMask(addr, SectorMask) = 0

PageAligned_WordMask(addr) == AndMask(addr, WordBytes - 1) = 0
\* program_page: addr & 0xFF != 0 is rejected
PageAligned(addr) == AndMask(addr, PageMask) = 0

Locked_LockOnly(c) == c.lock
\* program_page: ctlr.lock() || ctlr.flock()
Locked(c) == c.lock \/ c.flock

FromLeBytes_BigEndian(b) == U32(b[2] + 256 * b[1], b[4] + 256 * b[3])
\* u32::from_le_bytes: b[1] is the least significant byte
FromLeBytes(b) == U32(b[3] + 256 * b[4], b[1] + 256 * b[2])

\* data.chunks_exact(4): the number of complete chunks
NumChunks(data) == Len(data) \div WordBytes

\* data.chunks_exact(4): the n-th chunk, n = 1, 2, ...
Chunk(data, n) == SubSeq(data, WordBytes * (n - 1) + 1, WordBytes * n)

WordAddr_DoubleStep(addr, n) == Add32(addr, Small32(2 * WordBytes * (n - 1)))
\* (addr.0..).step_by(4): the n-th address, n = 1, 2, ...
WordAddr(addr, n) == Add32(addr, Small32(WordBytes * (n - 1)))

DropCtlr_Unlocks(c) == [c EXCEPT !.lock = FALSE]
\* drop: FLASH.ctlr().modify(|w| w.set_lock(true))
DropCtlr(c) == [c EXCEPT !.lock = TRUE]

EraseNext_SkipsBer32(p) ==
    CASE p = "e_wait1" -> "e_addr"
      [] p = "e_addr"  -> "e_strt"
      [] p = "e_strt"  -> "e_wait2"
      [] p = "e_wait2" -> "e_clr"
      [] OTHER         -> "idle"

EraseNext_StartFirst(p) ==
    CASE p = "e_wait1" -> "e_ber32"
      [] p = "e_ber32" -> "e_strt"
      [] p = "e_strt"  -> "e_addr"
      [] p = "e_addr"  -> "e_wait2"
      [] p = "e_wait2" -> "e_clr"
      [] OTHER         -> "idle"
\* erase_sector, lines 117-124: the statement after each statement
EraseNext(p) ==
    CASE p = "e_wait1" -> "e_ber32"
      [] p = "e_ber32" -> "e_addr"
      [] p = "e_addr"  -> "e_strt"
      [] p = "e_strt"  -> "e_wait2"
      [] p = "e_wait2" -> "e_clr"
      [] OTHER         -> "idle"

ProgNext_NoWriteWait(p) ==
    CASE p = "p_pg"    -> "p_wait1"
      [] p = "p_wait1" -> "p_loop"
      [] p = "p_word"  -> "p_loop"
      [] p = "p_wwait" -> "p_loop"
      [] p = "p_start" -> "p_wait2"
      [] p = "p_wait2" -> "p_clr"
      [] OTHER         -> "idle"
\* program_page, lines 138-153: the statement after each statement; "p_word"
\* and "p_start" are the two ways out of the loop head "p_loop"
ProgNext(p) ==
    CASE p = "p_pg"    -> "p_wait1"
      [] p = "p_wait1" -> "p_loop"
      [] p = "p_word"  -> "p_wwait"
      [] p = "p_wwait" -> "p_loop"
      [] p = "p_start" -> "p_wait2"
      [] p = "p_wait2" -> "p_clr"
      [] OTHER         -> "idle"

\* the positions at which wait_until_not_busy / wait_until_not_write_busy runs
OpWaitPcs == {"e_wait1", "e_wait2", "p_wait1", "p_wait2"}
WrWaitPcs == {"p_wwait"}

NextPc(p) == IF p \in {"e_wait1", "e_ber32", "e_addr", "e_strt", "e_wait2", "e_clr"}
             THEN EraseNext(p) ELSE ProgNext(p)

----------------------------------------------------------------------------
(* Bookkeeping of a call                                                   *)

Zero32 == U32(0, 0)

\* one entry of acc: a register or flash write, or a poller that returned Ok
Ev(op, a, v) == [op |-> op, addr |-> a, val |-> v]

KeyWrite(reg, v) == [reg |-> reg, val |-> v]

NoCall == [op |-> "none", addr |-> Zero32, phys |-> Zero32, data |-> <<>>]

NoObs == [allIdle |-> TRUE, allBusy |-> TRUE, noEop |-> TRUE, firstIdle |-> "none"]

\* the status read s, made by poller fn, added to what this call has seen
Observe(o, s, fn) ==
    [allIdle   |-> /\ o.allIdle /\ ~s.wrprterr
                   /\ (fn = "op" => ~s.bsy) /\ (fn = "wr" => ~s.wr_bsy),
     allBusy   |-> o.allBusy /\ s.bsy,
     noEop     |-> o.noEop /\ ~s.eop,
     firstIdle |-> IF o.firstIdle # "none" THEN o.firstIdle
                   ELSE IF (fn = "op" /\ ~s.bsy) \/ (fn = "wr" /\ ~s.wr_bsy)
                        THEN (IF s.wrprterr THEN "wp" ELSE "clean")
                        ELSE "none"]

\* the operation returns res to the host
Return(res) ==
    /\ pc' = "idle"
    /\ result' = res
    /\ wpc' = "loop"
    /\ i' = 0
    /\ status' = IdleStatr

\* a new call starts: the bookkeeping of the previous one is dropped
Enter(c) ==
    /\ call' = c
    /\ acc' = <<>>
    /\ reads' = 0
    /\ obs' = NoObs
    /\ k' = 0

----------------------------------------------------------------------------
Init ==
    /\ pc = "uninit"
    /\ wpc = "loop"
    /\ i = 0
    /\ ctlr = ResetCtlr
    /\ statr = IdleStatr
    /\ addrReg = Zero32
    /\ keys = <<>>
    /\ call = NoCall
    /\ k = 0
    /\ result = "Ok"
    /\ acc = <<>>
    /\ reads = 0
    /\ obs = NoObs
    /\ status = IdleStatr
    /\ drops = 0

----------------------------------------------------------------------------
(* The hardware                                                            *)

\* the controller changes a status flag while the program is about to access
\* the status register (several flags: several such steps)
HwStatus ==
    /\ pc \in OpWaitPcs \cup WrWaitPcs
    /\ wpc = "eop" \/ i < PollBudget
    /\ \E f \in DOMAIN statr : statr' = [statr EXCEPT ![f] = ~statr[f]]
    /\ UNCHANGED <<pc, wpc, i, ctlr, addrReg, keys, call, k, result, acc, reads, obs,
                   status, drops>>

----------------------------------------------------------------------------
(* Algorithm::new                                                          *)

NewKey1 ==
    /\ pc \in {"uninit", "dropped"}
    /\ keys' = <<KeyWrite("keyr", FLASH_KEY1)>>
    /\ pc' = "n_key2"
    /\ result' = "pending"
    /\ drops' = 0
    /\ Enter(NoCall)
    /\ UNCHANGED <<wpc, i, ctlr, statr, addrReg, status>>

\* the second key completes the sequence: the controller clears LOCK, or
\* does not accept the sequence and stays locked
NewKey2 ==
    /\ pc = "n_key2"
    /\ keys' = Append(keys, KeyWrite("keyr", FLASH_KEY2))
    /\ \E b \in BOOLEAN : ctlr' = [ctlr EXCEPT !.lock = b]
    /\ pc' = "n_mkey1"
    /\ UNCHANGED <<wpc, i, statr, addrReg, call, k, result, acc, reads, obs, status, drops>>

NewModeKey1 ==
    /\ pc = "n_mkey1"
    /\ keys' = Append(keys, KeyWrite("modekeyr", FLASH_KEY1))
    /\ pc' = "n_mkey2"
    /\ UNCHANGED <<wpc, i, ctlr, statr, addrReg, call, k, result, acc, reads, obs,
                   status, drops>>

NewModeKey2 ==
    /\ pc = "n_mkey2"
    /\ keys' = Append(keys, KeyWrite("modekeyr", FLASH_KEY2))
    /\ \E b \in BOOLEAN : ctlr' = [ctlr EXCEPT !.flock = b]
    /\ pc' = "idle"
    /\ result' = "Ok"
    /\ UNCHANGED <<wpc, i, statr, addrReg, call, k, acc, reads, obs, status, drops>>

----------------------------------------------------------------------------
(* wait_until_not_busy, run at the positions OpWaitPcs                     *)

OpPollBusy_NoCount ==
    /\ pc \in OpWaitPcs /\ wpc = "loop"
    /\ i < PollBudget /\ i < MaxBusyReads
    /\ OpBusy(statr)
    /\ status' = statr
    /\ reads' = reads + 1
    /\ obs' = Observe(obs, statr, "op")
    /\ UNCHANGED <<pc, wpc, i, ctlr, statr, addrReg, keys, call, k, result, acc, drops>>

\* one iteration whose read shows busy without end-of-operation: continue
OpPollBusy ==
    /\ pc \in OpWaitPcs /\ wpc = "loop"
    /\ i < PollBudget /\ i < MaxBusyReads
    /\ OpBusy(statr)
    /\ i' = i + 1
    /\ status' = statr
    /\ reads' = reads + 1
    /\ obs' = Observe(obs, statr, "op")
    /\ UNCHANGED <<pc, wpc, ctlr, statr, addrReg, keys, call, k, result, acc, drops>>

\* all remaining iterations, the controller showing the same busy status at
\* each of their reads
OpPollStuck ==
    /\ pc \in OpWaitPcs /\ wpc = "loop"
    /\ i < PollBudget
    /\ OpBusy(statr)
    /\ i' = PollBudget
    /\ status' = statr
    /\ reads' = reads + (PollBudget - i)
    /\ obs' = Observe(obs, statr, "op")
    /\ UNCHANGED <<pc, wpc, ctlr, statr, addrReg, keys, call, k, result, acc, drops>>

\* one iteration whose read shows write-protect-error: Err(ProgrammingError)
OpPollProtErr ==
    /\ pc \in OpWaitPcs /\ wpc = "loop"
    /\ i < PollBudget
    /\ ~OpBusy(statr) /\ ProtErr(statr)
    /\ reads' = reads + 1
    /\ obs' = Observe(obs, statr, "op")
    /\ Return("ProgrammingError")
    /\ UNCHANGED <<ctlr, statr, addrReg, keys, call, k, acc, drops>>

\* one iteration whose read lets the loop go on to the modify of line 90
OpPollIdle ==
    /\ pc \in OpWaitPcs /\ wpc = "loop"
    /\ i < PollBudget
    /\ ~OpBusy(statr) /\ ~ProtErr(statr)
    /\ i' = i + 1
    /\ status' = statr
    /\ reads' = reads + 1
    /\ obs' = Observe(obs, statr, "op")
    /\ wpc' = "eop"
    /\ UNCHANGED <<pc, ctlr, statr, addrReg, keys, call, k, result, acc, drops>>

\* the end-of-operation flag is cleared and the poller returns Ok
OpClearEop ==
    /\ pc \in OpWaitPcs /\ wpc = "eop"
    /\ statr' = ClearEop(statr)
    /\ acc' = Append(acc, Ev("wait_until_not_busy", Zero32, Zero32))
    /\ pc' = NextPc(pc)
    /\ wpc' = "loop"
    /\ i' = 0
    /\ status' = IdleStatr
    /\ UNCHANGED <<ctlr, addrReg, keys, call, k, result, reads, obs, drops>>

\* the loop ran out of iterations: Err(EraseTimeout)
OpPollTimeout ==
    /\ pc \in OpWaitPcs /\ wpc = "loop"
    /\ i >= PollBudget
    /\ Return(OpTimeoutError)
    /\ UNCHANGED <<ctlr, statr, addrReg, keys, call, k, acc, reads, obs, drops>>

----------------------------------------------------------------------------
(* wait_until_not_write_busy, run at the positions WrWaitPcs               *)

WrPollBusy ==
    /\ pc \in WrWaitPcs /\ wpc = "loop"
    /\ i < PollBudget /\ i < MaxBusyReads
    /\ WrBusy(statr)
    /\ i' = i + 1
    /\ status' = statr
    /\ reads' = reads + 1
    /\ obs' = Observe(obs, statr, "wr")
    /\ UNCHANGED <<pc, wpc, ctlr, statr, addrReg, keys, call, k, result, acc, drops>>

WrPollStuck ==
    /\ pc \in WrWaitPcs /\ wpc = "loop"
    /\ i < PollBudget
    /\ WrBusy(statr)
    /\ i' = PollBudget
    /\ status' = statr
    /\ reads' = reads + (PollBudget - i)
    /\ obs' = Observe(obs, statr, "wr")
    /\ UNCHANGED <<pc, wpc, ctlr, statr, addrReg, keys, call, k, result, acc, drops>>

WrPollProtErr ==
    /\ pc \in WrWaitPcs /\ wpc = "loop"
    /\ i < PollBudget
    /\ ~WrBusy(statr) /\ ProtErr(statr)
    /\ reads' = reads + 1
    /\ obs' = Observe(obs, statr, "wr")
    /\ Return("ProgrammingError")
    /\ UNCHANGED <<ctlr, statr, addrReg, keys, call, k, acc, drops>>

\* the read shows neither write-busy nor write-protect-error: Ok
WrPollIdle ==
    /\ pc \in WrWaitPcs /\ wpc = "loop"
    /\ i < PollBudget
    /\ ~WrBusy(statr) /\ ~ProtErr(statr)
    /\ reads' = reads + 1
    /\ obs' = Observe(obs, statr, "wr")
    /\ acc' = Append(acc, Ev("wait_until_not_write_busy", Zero32, Zero32))
    /\ pc' = NextPc(pc)
    /\ i' = 0
    /\ status' = IdleStatr
    /\ UNCHANGED <<wpc, ctlr, statr, addrReg, keys, call, k, result, drops>>

WrPollTimeout_ReturnsOk ==
    /\ pc \in WrWaitPcs /\ wpc = "loop"
    /\ i >= PollBudget
    /\ acc' = Append(acc, Ev("wait_until_not_write_busy", Zero32, Zero32))
    /\ pc' = NextPc(pc)
    /\ i' = 0
    /\ status' = IdleStatr
    /\ UNCHANGED <<wpc, ctlr, statr, addrReg, keys, call, k, result, reads, obs, drops>>

\* the loop ran out of iterations: Err(WriteTimeout)
WrPollTimeout ==
    /\ pc \in WrWaitPcs /\ wpc = "loop"
    /\ i >= PollBudget
    /\ Return("WriteTimeout")
    /\ UNCHANGED <<ctlr, statr, addrReg, keys, call, k, acc, reads, obs, drops>>

----------------------------------------------------------------------------
(* erase_sector                                                            *)

\* the call, the address translation and the alignment check
EraseSector(a) ==
    /\ pc = "idle"
    /\ Enter([op |-> "erase", addr |-> a, phys |-> Translate(a), data |-> <<>>])
    /\ IF ~SectorAligned(Translate(a))
       THEN pc' = "idle" /\ result' = "InvalidAddress"
       ELSE pc' = "e_wait1" /\ result' = "pending"
    /\ UNCHANGED <<wpc, i, ctlr, statr, addrReg, keys, status, drops>>

\* FLASH.ctlr().modify(|w| w.set_ber32(true))
EraseSetBer32 ==
    /\ pc = "e_ber32"
    /\ ctlr' = [ctlr EXCEPT !.ber32 = TRUE]
    /\ acc' = Append(acc, Ev("set_ber32", Zero32, Zero32))
    /\ pc' = NextPc(pc)
    /\ UNCHANGED <<wpc, i, statr, addrReg, keys, call, k, result, reads, obs, status, drops>>

\* FLASH.addr().write_value(addr)
EraseWriteAddr ==
    /\ pc = "e_addr"
    /\ addrReg' = call.phys
    /\ acc' = Append(acc, Ev("write_addr", Zero32, call.phys))
    /\ pc' = NextPc(pc)
    /\ UNCHANGED <<wpc, i, ctlr, statr, keys, call, k, result, reads, obs, status, drops>>

\* FLASH.ctlr().modify(|w| w.set_strt(true))
EraseSetStrt ==
    /\ pc = "e_strt"
    /\ ctlr' = [ctlr EXCEPT !.strt = TRUE]
    /\ acc' = Append(acc, Ev("set_strt", Zero32, Zero32))
    /\ pc' = NextPc(pc)
    /\ UNCHANGED <<wpc, i, statr, addrReg, keys, call, k, result, reads, obs, status, drops>>

\* FLASH.ctlr().modify(|w| w.set_ber32(false)); Ok(())
EraseClrBer32 ==
    /\ pc = "e_clr"
    /\ ctlr' = [ctlr EXCEPT !.ber32 = FALSE]
    /\ acc' = Append(acc, Ev("clear_ber32", Zero32, Zero32))
    /\ Return("Ok")
    /\ UNCHANGED <<statr, addrReg, keys, call, k, reads, obs, drops>>

----------------------------------------------------------------------------
(* program_page                                                            *)

\* the call, the address translation, the read of ctlr and the two checks
ProgramPage(a, d) ==
    /\ pc = "idle"
    /\ Enter([op |-> "program", addr |-> a, phys |-> Translate(a), data |-> d])
    /\ IF Locked(ctlr)
       THEN pc' = "idle" /\ result' = "FlashLocked"
       ELSE IF ~PageAligned(Translate(a))
            THEN pc' = "idle" /\ result' = "InvalidAddress"
            ELSE pc' = "p_pg" /\ result' = "pending"
    /\ UNCHANGED <<wpc, i, ctlr, statr, addrReg, keys, status, drops>>

ProgSetPagePg_Clears ==
    /\ pc = "p_pg"
    /\ ctlr' = [ctlr EXCEPT !.page_pg = FALSE]
    /\ acc' = Append(acc, Ev("set_page_pg", Zero32, Zero32))
    /\ pc' = NextPc(pc)
    /\ UNCHANGED <<wpc, i, statr, addrReg, keys, call, k, result, reads, obs, status,
                   drops>>

\* FLASH.ctlr().modify(|w| w.set_page_pg(true))
ProgSetPagePg ==
    /\ pc = "p_pg"
    /\ ctlr' = [ctlr EXCEPT !.page_pg = TRUE]
    /\ acc' = Append(acc, Ev("set_page_pg", Zero32, Zero32))
    /\ pc' = NextPc(pc)
    /\ UNCHANGED <<wpc, i, statr, addrReg, keys, call, k, result, reads, obs, status, drops>>

\* the loop yields the next (word, addr) pair: write_volatile(word) at addr
ProgWriteWord ==
    /\ pc = "p_loop"
    /\ k < NumChunks(call.data)
    /\ acc' = Append(acc, Ev("write_word", WordAddr(call.phys, k + 1),
                             FromLeBytes(Chunk(call.data, k + 1))))
    /\ k' = k + 1
    /\ pc' = NextPc("p_word")
    /\ UNCHANGED <<wpc, i, ctlr, statr, addrReg, keys, call, result, reads, obs, status, drops>>

\* the chunks are used up: FLASH.ctlr().modify(|w| w.set_pgstart(true))
ProgSetPgstart ==
    /\ pc = "p_loop"
    /\ k >= NumChunks(call.data)
    /\ ctlr' = [ctlr EXCEPT !.pgstart = TRUE]
    /\ acc' = Append(acc, Ev("set_pgstart", Zero32, Zero32))
    /\ pc' = NextPc("p_start")
    /\ UNCHANGED <<wpc, i, statr, addrReg, keys, call, k, result, reads, obs, status, drops>>

\* FLASH.ctlr().modify(|w| w.set_page_pg(false)); Ok(())
ProgClrPagePg ==
    /\ pc = "p_clr"
    /\ ctlr' = [ctlr EXCEPT !.page_pg = FALSE]
    /\ acc' = Append(acc, Ev("clear_page_pg", Zero32, Zero32))
    /\ Return("Ok")
    /\ UNCHANGED <<statr, addrReg, keys, call, k, reads, obs, drops>>

----------------------------------------------------------------------------
(* Drop for Algorithm                                                      *)

\* teardown, from the live instance or applied once more after it ran
Drop ==
    /\ pc \in {"idle", "dropped"}
    /\ drops < MaxDrops
    /\ ctlr' = DropCtlr(ctlr)
    /\ pc' = "dropped"
    /\ drops' = drops + 1
    /\ UNCHANGED <<wpc, i, statr, addrReg, keys, call, k, result, acc, reads, obs, status>>

----------------------------------------------------------------------------
Next ==
    \/ HwStatus
    \/ NewKey1 \/ NewKey2 \/ NewModeKey1 \/ NewModeKey2
    \/ \E a \in EraseAddrInputs : EraseSector(a)
    \/ EraseSetBer32 \/ EraseWriteAddr \/ EraseSetStrt \/ EraseClrBer32
    \/ \E a \in ProgAddrInputs, d \in DataInputs : ProgramPage(a, d)
    \/ ProgSetPagePg \/ ProgWriteWord \/ ProgSetPgstart \/ ProgClrPagePg
    \/ OpPollBusy \/ OpPollStuck \/ OpPollProtErr \/ OpPollIdle \/ OpClearEop
    \/ OpPollTimeout
    \/ WrPollBusy \/ WrPollStuck \/ WrPollProtErr \/ WrPollIdle \/ WrPollTimeout
    \/ Drop

Spec == Init /\ [][Next]_vars

----------------------------------------------------------------------------
(* Properties                                                              *)

\* the u32 x is a multiple of n, for n a power of two up to 2^16
IsMultiple32(x, n) == x.lo % n = 0

\* this step is the host calling erase_sector / program_page
EraseCallStep == pc = "idle" /\ pc' # "dropped" /\ call'.op = "erase"
ProgramCallStep == pc = "idle" /\ pc' # "dropped" /\ call'.op = "program"

\* the last operation was op and it has returned
Returned(op) == pc = "idle" /\ call.op = op

\* C1: erase_sector with a logical address that is not a multiple of the
\* sector size returns InvalidAddress within the call step, having made no
\* register write and no status read; ctlr (STRT, BER32), the address
\* register and the status register are as they were.
C1_EraseUnalignedRejected ==
    [][ (EraseCallStep /\ ~IsMultiple32(call'.addr, SectorSize))
          => /\ pc' = "idle"
             /\ result' = "InvalidAddress"
             /\ acc' = <<>>
             /\ reads' = 0
             /\ UNCHANGED <<ctlr, statr, addrReg>> ]_vars

C1_Witness ==
    /\ Returned("erase")
    /\ call.addr = U32(65535, 65281)
    /\ result = "InvalidAddress"
    /\ ctlr.ber32 /\ ctlr.strt

\* C2 as stated: program_page with a logical address that is not a multiple
\* of the page size returns InvalidAddress in every controller state.
C2_UnalignedAlwaysInvalidAddress ==
    [][ (ProgramCallStep /\ ~IsMultiple32(call'.addr, PageSize))
          => result' = "InvalidAddress" ]_vars

\* C2 amended: program_page with a logical address that is not a multiple of
\* the page size returns InvalidAddress when LOCK and FLOCK are both clear
\* at the call, and FlashLocked when one of them is set.
C2_UnalignedRejected ==
    [][ (ProgramCallStep /\ ~IsMultiple32(call'.addr, PageSize))
          => /\ pc' = "idle"
             /\ (~ctlr.lock /\ ~ctlr.flock) => result' = "InvalidAddress"
             /\ (ctlr.lock \/ ctlr.flock) => result' = "FlashLocked" ]_vars

C2_Witness ==
    /\ Returned("program")
    /\ call.addr = U32(0, 260)
    /\ Len(call.data) = MaxLen
    /\ ~ctlr.lock /\ ~ctlr.flock
    /\ result = "InvalidAddress"

\* C3: program_page called with LOCK or FLOCK set returns FlashLocked within
\* the call step: no word is written, no control bit is set, no status read
\* is made.
C3_LockedRejectedFirst ==
    [][ (ProgramCallStep /\ (ctlr.lock \/ ctlr.flock))
          => /\ pc' = "idle"
             /\ result' = "FlashLocked"
             /\ acc' = <<>>
             /\ reads' = 0
             /\ UNCHANGED <<ctlr, statr, addrReg>> ]_vars

C3_Witness ==
    /\ Returned("program")
    /\ IsMultiple32(call.addr, PageSize)
    /\ NumChunks(call.data) = 2
    /\ ctlr.flock /\ ~ctlr.lock
    /\ result = "FlashLocked"

\* C4 as stated: erase_sector with a sector-aligned address, every status
\* read of which shows the busy flag set, returns EraseTimeout after exactly
\* ERASE_TIMEOUT status reads.
C4_BusyAlwaysTimesOut ==
    (Returned("erase") /\ IsMultiple32(call.addr, SectorSize) /\ obs.allBusy)
        => (result = "EraseTimeout" /\ reads = ERASE_TIMEOUT)

\* C4 amended: erase_sector with a sector-aligned address, every status read
\* of which shows the busy flag set and the end-of-operation flag clear,
\* returns EraseTimeout (never success) after exactly ERASE_TIMEOUT status
\* reads.
C4_StuckBusyTimesOut ==
    (Returned("erase") /\ IsMultiple32(call.addr, SectorSize)
        /\ obs.allBusy /\ obs.noEop)
        => (result = "EraseTimeout" /\ reads = ERASE_TIMEOUT)

C4_Witness ==
    /\ Returned("erase")
    /\ call.addr = U32(0, 32768)
    /\ obs.allBusy /\ obs.noEop
    /\ result = "EraseTimeout"
    /\ reads = ERASE_TIMEOUT

\* this step is wait_until_not_busy / wait_until_not_write_busy returning Ok;
\* the read the poller decided on is status, respectively statr
OpOkStep == pc \in OpWaitPcs /\ wpc = "eop" /\ wpc' = "loop"
WrOkStep == pc \in WrWaitPcs /\ pc' \notin WrWaitPcs /\ pc' # "idle"

\* this step is a poller returning its timeout error
OpTimeoutStep == pc \in OpWaitPcs /\ result' = "EraseTimeout"
WrTimeoutStep == pc \in WrWaitPcs /\ result' = "WriteTimeout"

\* C5 as stated: a poller returns Ok only after a status read in which its
\* busy flag (bsy, respectively wr_bsy) is clear, and returns its timeout
\* error only with the iteration budget used up.
C5_OkOnlyWhenBusyClear ==
    [][ /\ OpOkStep => ~status.bsy
        /\ WrOkStep => ~statr.wr_bsy
        /\ OpTimeoutStep => i = ERASE_TIMEOUT
        /\ WrTimeoutStep => i = ERASE_TIMEOUT ]_vars

\* C5 amended: wait_until_not_write_busy returns Ok only after a status read
\* with wr_bsy clear; wait_until_not_busy returns Ok only after a status read
\* with bsy clear or eop set; a poller returns its timeout error only with
\* the iteration budget used up, its last read showing it busy.
C5_OkOnlyWhenNotBusy ==
    [][ /\ OpOkStep => (~status.bsy \/ status.eop)
        /\ WrOkStep => ~statr.wr_bsy
        /\ OpTimeoutStep => (i = ERASE_TIMEOUT /\ status.bsy /\ ~status.eop)
        /\ WrTimeoutStep => (i = ERASE_TIMEOUT /\ status.wr_bsy) ]_vars

C5_Witness ==
    /\ pc = "e_wait2" /\ wpc = "eop"
    /\ i = 2
    /\ status.bsy /\ status.eop

\* C6: if the first status read of a call in which the reading poller's busy
\* flag is clear shows write-protect-error, erase_sector and program_page
\* return ProgrammingError.
C6_ProtErrReported ==
    ((Returned("erase") \/ Returned("program")) /\ obs.firstIdle = "wp")
        => result = "ProgrammingError"

C6_Witness ==
    /\ Returned("program")
    /\ obs.firstIdle = "wp"
    /\ k = 1
    /\ result = "ProgrammingError"

\* the word writes of this call, in the order they were made
WordWrites == SelectSeq(acc, LAMBDA e : e.op = "write_word")

\* the names of the entries of acc, in order
AccOps == [n \in 1..Len(acc) |-> acc[n].op]

\* byte j (0 = least significant) of the u32 w
ByteOf(w, j) ==
    CASE j = 0 -> w.lo % 256
      [] j = 1 -> w.lo \div 256
      [] j = 2 -> w.hi % 256
      [] j = 3 -> w.hi \div 256

\* the physical address of the logical address a
Phys(a) == Add32(FLASH_BASE, a)

\* program_page ran on an unlocked controller with a page-aligned address
\* and has returned
ProgramRan ==
    /\ Returned("program")
    /\ ~ctlr.lock /\ ~ctlr.flock
    /\ IsMultiple32(call.addr, PageSize)

\* C7: on an unlocked controller on which no poller sees its busy flag or
\* write-protect-error, program_page with a page-aligned address returns Ok
\* having made exactly floor(len / 4) word writes: the n-th at physical
\* address base + a + 4(n - 1), its bytes, least significant first, the
\* bytes 4(n - 1) + 1 .. 4n of the data; trailing bytes are not written.
C7_WordsWritten ==
    (ProgramRan /\ obs.allIdle)
        => /\ result = "Ok"
           /\ Len(WordWrites) = Len(call.data) \div 4
           /\ \A n \in 1..Len(WordWrites) :
                /\ WordWrites[n].addr = Add32(Phys(call.addr), Small32(4 * (n - 1)))
                /\ \A j \in 0..3 :
                     ByteOf(WordWrites[n].val, j) = call.data[4 * (n - 1) + j + 1]

C7_Witness ==
    /\ ProgramRan /\ obs.allIdle
    /\ result = "Ok"
    /\ Len(call.data) = 7
    /\ Len(WordWrites) = 1

\* this step is teardown
DropStep == pc \in {"idle", "dropped"} /\ pc' = "dropped"

\* C8: teardown, after any operations, sets the lock bit, makes no status
\* read, changes no result (raises no error), and applied to a controller on
\* which teardown already ran leaves the controller as it is.
C8_TeardownLocks ==
    [][ DropStep
          => /\ ctlr'.lock
             /\ UNCHANGED <<statr, addrReg, reads, result, acc>>
             /\ pc = "dropped" => UNCHANGED ctlr ]_vars

C8_Witness ==
    /\ pc = "dropped"
    /\ drops = 2
    /\ ctlr.lock /\ ctlr.ber32
    /\ result = "EraseTimeout"

\* the entries of acc a successful erase_sector(a) makes
EraseTrace(a) ==
    << Ev("wait_until_not_busy", Zero32, Zero32),
       Ev("set_ber32", Zero32, Zero32),
       Ev("write_addr", Zero32, Phys(a)),
       Ev("set_strt", Zero32, Zero32),
       Ev("wait_until_not_busy", Zero32, Zero32),
       Ev("clear_ber32", Zero32, Zero32) >>

\* C9: on a controller that never shows busy or write-protect-error,
\* erase_sector with a sector-aligned address returns Ok after exactly: wait,
\* set BER32, write base + a to the address register, set STRT, wait, clear
\* BER32 (two status reads in all), BER32 clear on return; and in every
\* erase_sector call STRT is set only with BER32 set and the address
\* register holding base + a.
C9_EraseSequence ==
    /\ (Returned("erase") /\ IsMultiple32(call.addr, SectorSize) /\ obs.allIdle)
          => /\ result = "Ok"
             /\ acc = EraseTrace(call.addr)
             /\ reads = 2
             /\ ~ctlr.ber32
    /\ call.op = "erase"
          => \A n \in 1..Len(acc) :
                acc[n].op = "set_strt"
                   => /\ \E m \in 1..(n - 1) : acc[m].op = "set_ber32"
                      /\ \E m \in 1..(n - 1) :
                            acc[m] = Ev("write_addr", Zero32, Phys(call.addr))
                      /\ n = Len(acc) => (ctlr.ber32 /\ addrReg = Phys(call.addr))

C9_Witness ==
    /\ Returned("erase")
    /\ call.addr = Zero32
    /\ obs.allIdle
    /\ result = "Ok"
    /\ addrReg = U32(2048, 0)
    /\ ctlr.strt /\ ~ctlr.ber32

\* the names of the entries a successful program_page of n words makes
RECURSIVE WordOps(_)
WordOps(n) ==
    IF n = 0 THEN <<>>
    ELSE WordOps(n - 1) \o <<"write_word", "wait_until_not_write_busy">>

ProgramOps(n) ==
    <<"set_page_pg", "wait_until_not_busy">> \o WordOps(n)
        \o <<"set_pgstart", "wait_until_not_busy", "clear_page_pg">>

\* C10: a successful program_page makes, in this order: set page-program,
\* operation wait, then per word the write followed by a write-cycle wait,
\* then one set of program-start, operation wait, clear page-program; at any
\* moment of a program_page call every word write but the last entry is
\* directly followed by a completed write-cycle wait; and
\* program_page(0x100, [1..8]) writes 0x04030201 at 0x0800_0100 and
\* 0x08070605 at 0x0800_0104.
C10_ProgramSequence ==
    /\ (Returned("program") /\ result = "Ok")
          => AccOps = ProgramOps(NumChunks(call.data))
    /\ call.op = "program"
          => \A n \in 1..(Len(acc) - 1) :
                acc[n].op = "write_word" => acc[n + 1].op = "wait_until_not_write_busy"
    /\ (Returned("program") /\ result = "Ok" /\ call.addr = U32(0, 256)
          /\ call.data = <<1, 2, 3, 4, 5, 6, 7, 8>>)
          => WordWrites = << Ev("write_word", U32(2048, 256), U32(1027, 513)),
                             Ev("write_word", U32(2048, 260), U32(2055, 1541)) >>

C10_Witness ==
    /\ Returned("program")
    /\ result = "Ok"
    /\ call.addr = U32(0, 256)
    /\ call.data = <<1, 2, 3, 4, 5, 6, 7, 8>>
    /\ Len(WordWrites) = 2

\* C11: erase_sector returns only Ok, InvalidAddress, ProgrammingError or
\* EraseTimeout; program_page returns only Ok, FlashLocked, InvalidAddress,
\* ProgrammingError, WriteTimeout or EraseTimeout; construction returns no
\* error. ("pending" is an operation that has not returned.)
C11_ResultKinds ==
    /\ call.op = "erase"
          => result \in {"pending", "Ok", "InvalidAddress", "ProgrammingError",
                         "EraseTimeout"}
    /\ call.op = "program"
          => result \in {"pending", "Ok", "FlashLocked", "InvalidAddress",
                         "ProgrammingError", "WriteTimeout", "EraseTimeout"}
    /\ call.op = "none" => result \in {"pending", "Ok"}

C11_Witness ==
    /\ Returned("program")
    /\ result = "EraseTimeout"
    /\ Len(WordWrites) = 2

\* C12: erase_sector or program_page called with an aligned address while
\* LOCK or FLOCK is set returns FlashLocked within the call step and sets
\* neither a mode bit nor a trigger bit.
C12_LockedNeverOperates ==
    [][ /\ (EraseCallStep /\ IsMultiple32(call'.addr, SectorSize)
              /\ (ctlr.lock \/ ctlr.flock))
           => (pc' = "idle" /\ result' = "FlashLocked" /\ ctlr' = ctlr)
        /\ (ProgramCallStep /\ IsMultiple32(call'.addr, PageSize)
              /\ (ctlr.lock \/ ctlr.flock))
           => (pc' = "idle" /\ result' = "FlashLocked" /\ ctlr' = ctlr) ]_vars

\* the results a poller raises in erase_sector
ErasePollErrors == {"ProgrammingError", "EraseTimeout"}

\* C13 as stated: whenever erase_sector returns ProgrammingError or
\* EraseTimeout, BER32 is set on return.
C13_ErrorLeavesBer32Set ==
    (Returned("erase") /\ result \in ErasePollErrors) => ctlr.ber32

\* C13 amended: an erase_sector call that returns ProgrammingError or
\* EraseTimeout never clears BER32: the returning step leaves the control
\* register as it is, and when the error comes from the wait after STRT
\* (this call has set BER32) BER32 is set on return; when it comes from the
\* wait before, BER32 is as it was when the call was made.
C13_ErrorNeverClearsBer32 ==
    [][ (call.op = "erase" /\ pc \in OpWaitPcs /\ result' \in ErasePollErrors)
          => /\ ctlr' = ctlr
             /\ pc = "e_wait2" => ctlr'.ber32
             /\ pc = "e_wait1" => acc = <<>> ]_vars

C13_Witness ==
    /\ Returned("erase")
    /\ result = "EraseTimeout"
    /\ Len(acc) = 4
    /\ acc[4].op = "set_strt"
    /\ ctlr.ber32

\* the results a poller raises in program_page
ProgramPollErrors == {"ProgrammingError", "WriteTimeout", "EraseTimeout"}

\* C14: a program_page call that returns ProgrammingError, WriteTimeout or
\* EraseTimeout returns with the page-program bit set; one that returns
\* FlashLocked or InvalidAddress leaves the page-program bit (and the whole
\* control register) as it was before the call.
C14_PagePgAfterError ==
    [][ /\ (call.op = "program" /\ pc \in OpWaitPcs \cup WrWaitPcs
              /\ result' \in ProgramPollErrors)
           => ctlr'.page_pg
        /\ (ProgramCallStep /\ result' \in {"FlashLocked", "InvalidAddress"})
           => ctlr' = ctlr ]_vars

C14_Witness ==
    /\ Returned("program")
    /\ result = "WriteTimeout"
    /\ ctlr.page_pg
    /\ ~ctlr.pgstart

\* the entry w is the write of the n-th word of the data of this call
IsWordOf(w, n) ==
    /\ w.op = "write_word"
    /\ w.addr = Add32(Phys(call.addr), Small32(4 * (n - 1)))
    /\ \A j \in 0..3 : ByteOf(w.val, j) = call.data[4 * (n - 1) + j + 1]

\* C15: the write-cycle wait after the k-th word returns WriteTimeout exactly
\* when its whole iteration budget saw write-busy, and ProgrammingError on a
\* read with write-busy clear and write-protect-error set; program_page then
\* returns that error in the same step: no further word is written, the
\* control register is not touched (program-start is not set by this call),
\* and the k words already written stay written.
C15_WriteWaitFailure ==
    [][ /\ (pc = "p_wwait" /\ result' = "WriteTimeout")
           => (i = ERASE_TIMEOUT /\ status.wr_bsy)
        /\ (pc = "p_wwait" /\ i = ERASE_TIMEOUT) => result' = "WriteTimeout"
        /\ (pc = "p_wwait" /\ i < ERASE_TIMEOUT /\ statr' = statr
              /\ ~statr.wr_bsy /\ statr.wrprterr)
           => result' = "ProgrammingError"
        /\ (pc = "p_wwait" /\ result' \in {"WriteTimeout", "ProgrammingError"})
           => /\ pc' = "idle"
              /\ acc' = acc /\ ctlr' = ctlr /\ k' = k
              /\ acc[Len(acc)].op = "write_word"
              /\ Len(WordWrites) = k
              /\ \A n \in 1..k : IsWordOf(WordWrites[n], n)
              /\ \A n \in 1..Len(acc) : acc[n].op # "set_pgstart" ]_vars

C15_Witness ==
    /\ Returned("program")
    /\ result = "WriteTimeout"
    /\ NumChunks(call.data) = 2
    /\ Len(WordWrites) = 1
    /\ acc[Len(acc)].op = "write_word"
    /\ ~ctlr.pgstart

\* this step is a step of the program inside a poller (not of the hardware)
PollerStep ==
    /\ pc \in OpWaitPcs \cup WrWaitPcs
    /\ <<pc, wpc, i, result>>' # <<pc, wpc, i, result>>

\* C16: wait_until_not_busy writes the controller only when it returns Ok,
\* and then only clears the end-of-operation flag, every other status bit
\* and every other register staying as it is; returning ProgrammingError or
\* EraseTimeout, or looping, it writes nothing. wait_until_not_write_busy
\* writes no register on any path.
C16_PollerFrame ==
    [][ /\ OpOkStep
           => /\ statr' = [statr EXCEPT !.eop = FALSE]
              /\ UNCHANGED <<ctlr, addrReg, keys>>
        /\ (PollerStep /\ pc \in OpWaitPcs /\ ~OpOkStep)
           => UNCHANGED <<statr, ctlr, addrReg, keys, acc>>
        /\ (PollerStep /\ pc \in WrWaitPcs)
           => UNCHANGED <<statr, ctlr, addrReg, keys>> ]_vars

C16_Witness ==
    /\ Returned("erase")
    /\ result = "ProgrammingError"
    /\ statr.eop /\ statr.bsy /\ statr.wrprterr
    /\ reads = 1

\* the positions inside Algorithm::new, after its first write
NewPcs == {"n_key2", "n_mkey1", "n_mkey2"}

\* the four writes of a construction: 0x45670123, 0xCDEF89AB to the key
\* register, then the same two to the mode-key register
KeySequence ==
    << KeyWrite("keyr", U32(17767, 291)), KeyWrite("keyr", U32(52719, 35243)),
       KeyWrite("modekeyr", U32(17767, 291)), KeyWrite("modekeyr", U32(52719, 35243)) >>

\* C17: construction makes exactly the four key writes, in order, and no
\* other register write, status read or poll, and returns an instance (Ok)
\* whatever the controller state.
C17_Construction ==
    /\ pc = "n_key2" => keys = SubSeq(KeySequence, 1, 1)
    /\ pc = "n_mkey1" => keys = SubSeq(KeySequence, 1, 2)
    /\ pc = "n_mkey2" => keys = SubSeq(KeySequence, 1, 3)
    /\ pc \notin NewPcs \cup {"uninit"} => keys = KeySequence
    /\ pc \in NewPcs => (reads = 0 /\ acc = <<>> /\ wpc = "loop" /\ i = 0)
    /\ (pc = "idle" /\ call.op = "none") => (result = "Ok" /\ reads = 0 /\ acc = <<>>)

C17_Witness ==
    /\ pc = "idle" /\ call.op = "none"
    /\ result = "Ok"
    /\ keys = KeySequence
    /\ ctlr.lock /\ ctlr.ber32
    /\ statr.bsy

\* a step of the running operation (the hardware apart)
OperationStep ==
    \/ EraseSetBer32 \/ EraseWriteAddr \/ EraseSetStrt \/ EraseClrBer32
    \/ ProgSetPagePg \/ ProgWriteWord \/ ProgSetPgstart \/ ProgClrPagePg
    \/ OpPollBusy \/ OpPollStuck \/ OpPollProtErr \/ OpPollIdle \/ OpClearEop
    \/ OpPollTimeout
    \/ WrPollBusy \/ WrPollStuck \/ WrPollProtErr \/ WrPollIdle \/ WrPollTimeout

\* an operation is running
Running == pc \notin {"uninit", "idle", "dropped"} \cup NewPcs

\* the statements the running operation still has to go through
Rank ==
    CASE pc = "e_wait1" -> 6
      [] pc = "e_ber32" -> 5
      [] pc = "e_addr"  -> 4
      [] pc = "e_strt"  -> 3
      [] pc = "e_wait2" -> 2
      [] pc = "e_clr"   -> 1
      [] pc = "p_pg"    -> 2 * NumChunks(call.data) + 5
      [] pc = "p_wait1" -> 2 * NumChunks(call.data) + 4
      [] pc = "p_loop"  -> 2 * (NumChunks(call.data) - k) + 3
      [] pc = "p_wwait" -> 2 * (NumChunks(call.data) - k) + 4
      [] pc = "p_wait2" -> 2
      [] pc = "p_clr"   -> 1
      [] OTHER          -> 0

\* the iterations the running poller has left, its modify of statr counted
\* as one more step
Inner ==
    IF pc \in OpWaitPcs \cup WrWaitPcs
    THEN 2 * (ERASE_TIMEOUT - i) + (IF wpc = "loop" THEN 1 ELSE 0)
    ELSE 0

\* this step uses up work: it goes on to a later statement, or stays in the
\* poller it is in and uses up iterations
Progress ==
    \/ pc' = pc /\ k' = k /\ Inner' < Inner
    \/ Rank' < Rank

\* C18: no poller runs more than ERASE_TIMEOUT iterations; erase_sector
\* makes at most 2 * ERASE_TIMEOUT status reads and program_page with n
\* complete data words at most (n + 2) * ERASE_TIMEOUT; and every operation
\* returns whatever the controller does: while it runs it can always take a
\* step, and each of its steps uses up some of a bounded amount of work
\* (statements left, then poll iterations left).
C18_Terminates ==
    /\ [](/\ i <= ERASE_TIMEOUT
          /\ call.op = "erase" => reads <= 2 * ERASE_TIMEOUT
          /\ call.op = "program"
                => reads <= (NumChunks(call.data) + 2) * ERASE_TIMEOUT
          /\ Rank >= 0 /\ Inner >= 0
          /\ Running => ENABLED OperationStep)
    /\ [][ Running => (UNCHANGED <<pc, wpc, i, reads, acc, result>> \/ Progress) ]_vars

C18_Witness ==
    /\ Returned("program")
    /\ NumChunks(call.data) = 2
    /\ result = "EraseTimeout"
    /\ reads > ERASE_TIMEOUT
    /\ Len(acc) = 7

\* the last entry of acc is op: the step just taken made that write
JustDid(op) == acc # <<>> /\ acc[Len(acc)].op = op

\* C19: the control register never has BER32 and the page-program bit set
\* together, STRT is never set by erase_sector while the page-program bit is
\* set, and program-start is never set by program_page while BER32 is set.
C19_ModesExclusive ==
    /\ ~(ctlr.ber32 /\ ctlr.page_pg)
    /\ (call.op = "erase" /\ JustDid("set_strt")) => ~ctlr.page_pg
    /\ (call.op = "program" /\ JustDid("set_pgstart")) => ~ctlr.ber32

----------------------------------------------------------------------------
(* program_page on a whole page and on more than a page, on an unlocked    *)
(* controller that is idle at every status read                            *)

\* the longest data slice of this specification: a page and extra words
MaxExtraWords == 1

\* the data slices: a whole page, and a page with extra words
PageDataInputs ==
    { [n \in 1..(PageSize + WordBytes * x) |-> PatByte(1, n)] : x \in 0..MaxExtraWords }

\* the state after a construction whose key sequences were accepted
InitUnlocked ==
    /\ pc = "idle"
    /\ wpc = "loop"
    /\ i = 0
    /\ ctlr = [ResetCtlr EXCEPT !.lock = FALSE, !.flock = FALSE]
    /\ statr = IdleStatr
    /\ addrReg = Zero32
    /\ keys = KeySequence
    /\ call = NoCall
    /\ k = 0
    /\ result = "Ok"
    /\ acc = <<>>
    /\ reads = 0
    /\ obs = NoObs
    /\ status = IdleStatr
    /\ drops = 0

NextPage ==
    \/ \E a \in ProgAddrInputs, d \in PageDataInputs : ProgramPage(a, d)
    \/ ProgSetPagePg \/ ProgWriteWord \/ ProgSetPgstart \/ ProgClrPagePg
    \/ OpPollIdle \/ OpClearEop
    \/ WrPollIdle

PageSpec == InitUnlocked /\ [][NextPage]_vars

\* the physical address w lies in the page that starts at the page-aligned
\* physical address p
InPage(w, p) == w.hi = p.hi /\ w.lo >= p.lo /\ w.lo < p.lo + PageSize

\* C20 as stated: every word write of program_page with a page-aligned
\* address goes to a physical address inside the addressed page, for every
\* data length.
C20_WritesInPage ==
    (call.op = "program" /\ IsMultiple32(call.addr, PageSize))
        => \A n \in 1..Len(WordWrites) : InPage(WordWrites[n].addr, Phys(call.addr))

\* C20 amended: every word write of program_page with a page-aligned
\* address and at most a page (0x100 bytes) of data goes to a physical
\* address inside the addressed page.
C20_PageWritesInPage ==
    (call.op = "program" /\ IsMultiple32(call.addr, PageSize)
        /\ Len(call.data) <= PageSize)
        => \A n \in 1..Len(WordWrites) : InPage(WordWrites[n].addr, Phys(call.addr))

C20_Witness ==
    /\ Returned("program")
    /\ result = "Ok"
    /\ call.addr = U32(65535, 65280)
    /\ Len(call.data) = PageSize
    /\ Len(WordWrites) = 64
    /\ InPage(WordWrites[64].addr, Phys(call.addr))

====
